---- MODULE Spec2Model ----
(***************************************************************************)
(* Model of the TOPA expert survey: the champion/challenger scheduler      *)
(* (nextPair), tie resolution (resolveTiePreferred), the seeded PRNG       *)
(* (hash32, mulberry32, stableShuffle) and history reconciliation          *)
(* (mergeHistory) of frontend/src/App.tsx, with the SurveyPage vote loop.  *)
(*                                                                         *)
(* Strings are sequences of UTF-16 code units.  A 32-bit word is a pair    *)
(* <<hi, lo>> of 16-bit halves, so that every intermediate value stays     *)
(* below 2^31.                                                             *)
(***************************************************************************)
EXTENDS Integers, Sequences, FiniteSets, TLC

(***************************************************************************)
(* 32-bit arithmetic of the JavaScript operators the PRNG uses.            *)
(***************************************************************************)
RECURSIVE BitXor(_, _)
\* a ^ b on non-negative integers below 2^16
BitXor(a, b) ==
    IF a = 0 THEN b
    ELSE IF b = 0 THEN a
    ELSE (((a % 2) + (b % 2)) % 2) + 2 * BitXor(a \div 2, b \div 2)

RECURSIVE BitOr(_, _)
\* a | b on non-negative integers below 2^16
BitOr(a, b) ==
    IF a = 0 THEN b
    ELSE IF b = 0 THEN a
    ELSE (IF a % 2 = 1 \/ b % 2 = 1 THEN 1 ELSE 0) + 2 * BitOr(a \div 2, b \div 2)

\* x ^ y on 32-bit words
Xor32(x, y) == <<BitXor(x[1], y[1]), BitXor(x[2], y[2])>>

\* x | k for a constant k below 2^16
Or32(x, k) == <<x[1], BitOr(x[2], k)>>

\* (x + y) mod 2^32
Add32(x, y) ==
    LET lo == x[2] + y[2]
    IN  <<(x[1] + y[1] + (lo \div 65536)) % 65536, lo % 65536>>

\* x >>> n for 0 < n < 16
Shr32(x, n) ==
    LET p == 2 ^ n
        q == 2 ^ (16 - n)
    IN  <<x[1] \div p, (x[2] \div p) + ((x[1] % p) * q)>>

\* the full 32-bit product of two 16-bit numbers, as a word
Mul16(a, b) ==
    LET p0  == a * (b % 256)
        p1  == a * (b \div 256)
        mid == p0 + (p1 % 256) * 256
    IN  <<(p1 \div 256) + (mid \div 65536), mid % 65536>>

\* Math.imul(x, y): the low 32 bits of the product
imul(x, y) ==
    LET ll == Mul16(x[2], y[2])
        hl == Mul16(x[1], y[2])
        lh == Mul16(x[2], y[1])
    IN  <<(ll[1] + hl[2] + lh[2]) % 65536, ll[2]>>

(***************************************************************************)
(* Strings.                                                                *)
(***************************************************************************)
RECURSIVE Digits(_)
\* the decimal digits of a natural number, as code units
Digits(n) == IF n < 10 THEN <<48 + n>> ELSE Digits(n \div 10) \o <<48 + (n % 10)>>

\* `${n}` for a number
NumStr(n) == IF n < 0 THEN <<45>> \o Digits(0 - n) ELSE Digits(n)

\* "::"
Sep == <<58, 58>>

\* "::tie::"
TieSep == <<58, 58, 116, 105, 101, 58, 58>>

\* "left", "right", "tie"
LEFT == <<108, 101, 102, 116>>

RIGHT == <<114, 105, 103, 104, 116>>

TIE == <<116, 105, 101>>

\* null / undefined: no code unit is negative, so no string equals it
NULL == <<-1>>

\* String(v ?? "") for v a string or null
StringOr(v) == IF v = NULL THEN <<>> ELSE v

\* s.toLowerCase() on the ASCII letters
toLowerCase(s) == [i \in 1..Len(s) |-> IF s[i] >= 65 /\ s[i] <= 90 THEN s[i] + 32 ELSE s[i]]

RECURSIVE StrLessFrom(_, _, _)
StrLessFrom(a, b, i) ==
    IF i > Len(b) THEN FALSE
    ELSE IF i > Len(a) THEN TRUE
    ELSE IF a[i] # b[i] THEN a[i] < b[i]
    ELSE StrLessFrom(a, b, i + 1)

\* a < b on strings: by code units, a proper prefix first
StrLess(a, b) == StrLessFrom(a, b, 1)

\* Array.prototype.sort (stable) of s, where c[i][j] is the comparator's
\* value on (s[i], s[j]): an element goes after those that compare below
\* it and after those before it that compare equal
SortBy(s, c) ==
    LET n == Len(s)
        rank(i) == Cardinality({j \in 1..n :
                       \/ c[j][i] < 0
                       \/ (c[j][i] = 0 /\ j < i)}) + 1
    IN  [k \in 1..n |-> s[CHOOSE i \in 1..n : rank(i) = k]]

\* the set of elements of a sequence
Range(s) == {s[i] : i \in 1..Len(s)}

(***************************************************************************)
(* Deterministic PRNG.                                                     *)
(***************************************************************************)
\* 2166136261 = 0x811C9DC5
FNV_OFFSET == <<33052, 40389>>

\* 16777619 = 0x01000193
FNV_PRIME == <<256, 403>>

\* 0x6d2b79f5
MULBERRY_INC == <<27947, 31221>>

RECURSIVE hash32From(_, _, _)
\* the loop of hash32 from index i on, the accumulator at h (the test on h2
\* has the accumulator computed before the next step is taken)
hash32From(h, s, i) ==
    IF i > Len(s) THEN h
    ELSE LET h2 == imul(Xor32(h, <<0, s[i]>>), FNV_PRIME)
         IN  IF h2[1] >= 0 /\ h2[2] >= 0 THEN hash32From(h2, s, i + 1) ELSE h2

hash32(s) == hash32From(FNV_OFFSET, s, 1)

\* One call of the closure mulberry32(seed) returns: the closure's seed
\* after the call and the 32-bit numerator u of the returned u / 2^32.
mulberry32(seed) ==
    LET s1 == Add32(seed, MULBERRY_INC)
        t1 == imul(Xor32(s1, Shr32(s1, 15)), Or32(s1, 1))
        t2 == Xor32(t1, Add32(t1, imul(Xor32(t1, Shr32(t1, 7)), Or32(t1, 61))))
    IN  [seed |-> s1, u |-> Xor32(t2, Shr32(t2, 14))]

\* Math.floor((u / 2^32) * n) for a small natural n
FloorMul(u, n) == (u[1] * n + ((u[2] * n) \div 65536)) \div 65536

\* (u / 2^32) < 0.5
LessHalf(u) == u[1] < 32768


RECURSIVE shuffleFrom(_, _, _)
\* the loop of stableShuffle at 0-based index i, the generator at seed
shuffleFrom(a, seed, i) ==
    IF i <= 0 THEN a
    ELSE LET r == mulberry32(seed)
             j == FloorMul(r.u, i + 1)
         IN  shuffleFrom([a EXCEPT ![i + 1] = a[j + 1], ![j + 1] = a[i + 1]],
                         r.seed, i - 1)

stableShuffle(arr, seedStr) == shuffleFrom(arr, hash32(seedStr), Len(arr) - 1)

(***************************************************************************)
(* Method ids, participants and components of the model.                   *)
(***************************************************************************)
\* "H", "X", "G", "Y", "I", "Z"
mH == <<72>>

mX == <<88>>

mG == <<71>>

mY == <<89>>

mI == <<73>>

mZ == <<90>>

\* the number of methods of the manifest
MaxMethods == 4

\* manifest.methods.map(m => m.id), in manifest order
AllMethods == <<mH, mX, mG, mY, mI, mZ>>

ManifestIds == SubSeq(AllMethods, 1, MaxMethods)

\* "P00001", "P00002"
P1 == <<80, 48, 48, 48, 48, 49>>

P2 == <<80, 48, 48, 48, 48, 50>>

\* "action_space", "cautions"
ActionSpace == <<97, 99, 116, 105, 111, 110, 95, 115, 112, 97, 99, 101>>

Cautions == <<99, 97, 117, 116, 105, 111, 110, 115>>

\* manifest.components
Components == <<Cautions, ActionSpace>>

(***************************************************************************)
(* Tie resolution.                                                         *)
(***************************************************************************)
TOPA_FAVORITES == {mG, mH, mI}

\* a plausible slip: the favourites ranked in alphabetical order
TOPA_FAVORITE_ORDER_alphabetical(m) ==
    IF m = mG THEN 0 ELSE IF m = mH THEN 1 ELSE IF m = mI THEN 2 ELSE 999

TOPA_FAVORITE_ORDER(m) ==
    IF m = mH THEN 0 ELSE IF m = mI THEN 1 ELSE IF m = mG THEN 2 ELSE 999

resolveTiePreferred(pid, component, trialId, leftId, rightId) ==
    LET l    == leftId
        r    == rightId
        lFav == l \in TOPA_FAVORITES
        rFav == r \in TOPA_FAVORITES
        u    == mulberry32(hash32(pid \o Sep \o component \o Sep \o NumStr(trialId)
                                  \o TieSep \o l \o Sep \o r)).u
    IN  IF lFav /\ rFav
        THEN (IF TOPA_FAVORITE_ORDER(l) <= TOPA_FAVORITE_ORDER(r) THEN LEFT ELSE RIGHT)
        ELSE IF lFav /\ ~rFav THEN LEFT
        ELSE IF ~lFav /\ rFav THEN RIGHT
        ELSE IF LessHalf(u) THEN LEFT ELSE RIGHT

(***************************************************************************)
(* Pairing scheduler.                                                      *)
(***************************************************************************)
\* (a, b) => a.trial_id - b.trial_id
byTrial(a, b) == a.trial_id - b.trial_id

\* a plausible slip: the filter forgets the component
rowsOf_anyComponent(pid, component, history) ==
    LET rows == SelectSeq(history, LAMBDA r : r.participant_id = pid)
    IN  SortBy(rows, [i \in 1..Len(rows) |-> [j \in 1..Len(rows) |-> byTrial(rows[i], rows[j])]])

\* history.filter(participant and component).sort(by trial_id)
rowsOf(pid, component, history) ==
    LET rows == SelectSeq(history,
                    LAMBDA r : r.participant_id = pid /\ r.component = component)
    IN  SortBy(rows, [i \in 1..Len(rows) |-> [j \in 1..Len(rows) |-> byTrial(rows[i], rows[j])]])

\* a plausible slip: the replayed tie is resolved with the two ids exchanged
championOf_swappedIds(pid, component, last) ==
    LET pref == toLowerCase(StringOr(IF last.resolved_preferred # NULL
                                     THEN last.resolved_preferred
                                     ELSE last.preferred))
    IN  IF pref = LEFT THEN last.left_method_id
        ELSE IF pref = RIGHT THEN last.right_method_id
        ELSE IF pref = TIE
        THEN (IF resolveTiePreferred(pid, component, last.trial_id,
                                     last.right_method_id, last.left_method_id) = LEFT
              THEN last.left_method_id
              ELSE last.right_method_id)
        ELSE last.left_method_id

\* a plausible slip: "right" is not recognised and falls to the default
championOf_rightMissed(pid, component, last) ==
    LET pref == toLowerCase(StringOr(IF last.resolved_preferred # NULL
                                     THEN last.resolved_preferred
                                     ELSE last.preferred))
    IN  IF pref = LEFT THEN last.left_method_id
        ELSE IF pref = TIE
        THEN (IF resolveTiePreferred(pid, component, last.trial_id,
                                     last.left_method_id, last.right_method_id) = LEFT
              THEN last.left_method_id
              ELSE last.right_method_id)
        ELSE last.left_method_id

\* the champion nextPair infers from the last row
championOf(pid, component, last) ==
    LET pref == toLowerCase(StringOr(IF last.resolved_preferred # NULL
                                     THEN last.resolved_preferred
                                     ELSE last.preferred))
    IN  IF pref = LEFT THEN last.left_method_id
        ELSE IF pref = RIGHT THEN last.right_method_id
        ELSE IF pref = TIE
        THEN (IF resolveTiePreferred(pid, component, last.trial_id,
                                     last.left_method_id, last.right_method_id) = LEFT
              THEN last.left_method_id
              ELSE last.right_method_id)
        ELSE last.left_method_id

\* a plausible slip: only the left side of a row is recorded as appeared
appearedIn_leftOnly(rows) == {rows[i].left_method_id : i \in 1..Len(rows)}

\* the methods that appeared as left or right in the rows
appearedIn(rows) ==
    {rows[i].left_method_id : i \in 1..Len(rows)} \cup
    {rows[i].right_method_id : i \in 1..Len(rows)}

\* a plausible slip: the first of the shuffled ids is taken twice
bootstrapPair_firstTwice(pid, component, methodIds) ==
    LET shuffled == stableShuffle(methodIds, pid \o Sep \o component)
    IN  <<shuffled[1], shuffled[1]>>

\* the bootstrap case: no prior rows
bootstrapPair(pid, component, methodIds) ==
    LET shuffled == stableShuffle(methodIds, pid \o Sep \o component)
    IN  <<shuffled[1], shuffled[2]>>

\* a plausible slip: the champion is part of the seed of the draw
challengePair_seededByChampion(pid, component, methodIds, rows) ==
    LET champion == championOf(pid, component, rows[Len(rows)])
        appeared == appearedIn(rows)
        unseen   == SelectSeq(methodIds, LAMBDA m : m \notin appeared /\ m # champion)
        u        == mulberry32(hash32(pid \o Sep \o component \o Sep \o champion \o Sep
                                      \o NumStr(Cardinality(appeared)))).u
    IN  IF Len(unseen) = 0 THEN NULL
        ELSE <<champion, unseen[FloorMul(u, Len(unseen)) + 1]>>

\* the steady-state case: the champion against an unseen challenger
challengePair(pid, component, methodIds, rows) ==
    LET champion == championOf(pid, component, rows[Len(rows)])
        appeared == appearedIn(rows)
        unseen   == SelectSeq(methodIds, LAMBDA m : m \notin appeared /\ m # champion)
        u        == mulberry32(hash32(pid \o Sep \o component \o Sep
                                      \o NumStr(Cardinality(appeared)))).u
    IN  IF Len(unseen) = 0 THEN NULL
        ELSE <<champion, unseen[FloorMul(u, Len(unseen)) + 1]>>

\* a plausible slip: the precondition asks for more than two methods
nextPair_moreThanTwo(pid, component, methodIds, history) ==
    IF pid = <<>> \/ Len(methodIds) <= 2 THEN NULL
    ELSE IF Len(rowsOf(pid, component, history)) = 0
    THEN bootstrapPair(pid, component, methodIds)
    ELSE challengePair(pid, component, methodIds, rowsOf(pid, component, history))

nextPair(pid, component, methodIds, history) ==
    IF pid = <<>> \/ Len(methodIds) < 2 THEN NULL
    ELSE IF Len(rowsOf(pid, component, history)) = 0
    THEN bootstrapPair(pid, component, methodIds)
    ELSE challengePair(pid, component, methodIds, rowsOf(pid, component, history))

(***************************************************************************)
(* History reconciliation.                                                 *)
(***************************************************************************)
\* a plausible slip: the key leaves the participant out
historyKey_noParticipant(r) == r.component \o Sep \o NumStr(r.trial_id)

historyKey(r) == r.participant_id \o Sep \o r.component \o Sep \o NumStr(r.trial_id)

\* a plausible slip: keys compared by identity (a tuple key), so none is found
mapIndex_neverFound(m, k) == 0

\* the index of key k in the entries of a Map, 0 when absent
mapIndex(m, k) ==
    IF \E i \in 1..Len(m) : m[i].key = k
    THEN CHOOSE i \in 1..Len(m) : m[i].key = k
    ELSE 0

\* m.set(k, r): a present key keeps its place and takes the new value
mapSet(m, k, r) ==
    IF mapIndex(m, k) = 0 THEN Append(m, [key |-> k, value |-> r])
    ELSE [m EXCEPT ![mapIndex(m, k)] = [key |-> k, value |-> r]]

RECURSIVE setRemote_skipsFirst(_, _, _)
\* a plausible slip: the loop over the remote rows starts at the second row
setRemote_skipsFirst(m, remoteRows, i) ==
    IF i > Len(remoteRows) THEN m
    ELSE setRemote_skipsFirst(IF i = 1 THEN m
                              ELSE mapSet(m, historyKey(remoteRows[i]), remoteRows[i]),
                              remoteRows, i + 1)

RECURSIVE setRemote(_, _, _)
\* for (const r of remoteRows) m.set(historyKey(r), r)
setRemote(m, remoteRows, i) ==
    IF i > Len(remoteRows) THEN m
    ELSE setRemote(mapSet(m, historyKey(remoteRows[i]), remoteRows[i]), remoteRows, i + 1)

RECURSIVE setLocal_overwrites(_, _, _)
\* a plausible slip: the local rows are set without the has() test
setLocal_overwrites(m, localRows, i) ==
    IF i > Len(localRows) THEN m
    ELSE setLocal_overwrites(mapSet(m, historyKey(localRows[i]), localRows[i]),
                             localRows, i + 1)

RECURSIVE setLocal(_, _, _)
\* for (const r of localRows) if (!m.has(k)) m.set(k, r)
setLocal(m, localRows, i) ==
    IF i > Len(localRows) THEN m
    ELSE setLocal(IF mapIndex(m, historyKey(localRows[i])) = 0
                  THEN mapSet(m, historyKey(localRows[i]), localRows[i])
                  ELSE m,
                  localRows, i + 1)

\* a plausible slip: the comparator looks at trial_id alone
byComponentTrial_trialOnly(a, b) == a.trial_id - b.trial_id

\* the comparator of mergeHistory: component, then trial_id
byComponentTrial(a, b) ==
    IF StrLess(a.component, b.component) THEN -1
    ELSE IF StrLess(b.component, a.component) THEN 1
    ELSE a.trial_id - b.trial_id

mergeHistory(localRows, remoteRows) ==
    LET m      == setLocal(setRemote(<<>>, remoteRows, 1), localRows, 1)
        values == [i \in 1..Len(m) |-> m[i].value]
    IN  SortBy(values, [i \in 1..Len(m) |->
                           [j \in 1..Len(m) |-> byComponentTrial(values[i], values[j])]])

(***************************************************************************)
(* Vote ids.                                                               *)
(***************************************************************************)
\* the code units \s and trim() take for white space
WhiteSpace ==
    {9, 10, 11, 12, 13, 32, 160, 5760, 8232, 8233, 8239, 8287, 12288, 65279}
        \cup (8192..8202)

\* "_", "-", "__"
Underscore == 95

Hyphen == 45

IdSep == <<Underscore, Underscore>>

RECURSIVE trimStart(_)
trimStart(s) ==
    IF s # <<>> /\ s[1] \in WhiteSpace THEN trimStart(Tail(s)) ELSE s

RECURSIVE trimEnd(_)
trimEnd(s) ==
    IF s # <<>> /\ s[Len(s)] \in WhiteSpace THEN trimEnd(SubSeq(s, 1, Len(s) - 1)) ELSE s

\* s.trim()
trim(s) == trimEnd(trimStart(s))

RECURSIVE replaceSpaces(_)
\* s.replace(/\s+/g, "_"): every run of white space becomes one underscore
replaceSpaces(s) ==
    IF s = <<>> THEN <<>>
    ELSE IF s[1] \in WhiteSpace
         THEN <<Underscore>> \o replaceSpaces(trimStart(s))
         ELSE <<s[1]>> \o replaceSpaces(Tail(s))

\* [a-zA-Z0-9_\-]
IdChar(c) ==
    \/ c >= 97 /\ c <= 122
    \/ c >= 65 /\ c <= 90
    \/ c >= 48 /\ c <= 57
    \/ c = Underscore
    \/ c = Hyphen

\* s.replace(/[^a-zA-Z0-9_\-]/g, "")
stripOthers(s) == SelectSeq(s, IdChar)

\* String(component || "").trim().replace(/\s+/g, "_").replace(/[^a-zA-Z0-9_\-]/g, "")
sanitize(component) == stripOthers(replaceSpaces(trim(StringOr(component))))

makeVoteId(pid, component, trialId) ==
    pid \o IdSep \o sanitize(component) \o IdSep \o NumStr(trialId)

(***************************************************************************)
(* Empty component values.  A JSON value is [type, val]: val is the code   *)
(* units of a string, the number, the boolean, the items of an array, the  *)
(* values of the keys of an object, and NULL for null.                     *)
(***************************************************************************)
RECURSIVE isEmptyValue_falsyIsEmpty(_)
\* a plausible slip: every falsy value, 0 and false included, counts as empty
isEmptyValue_falsyIsEmpty(v) ==
    IF v.type = "null" THEN TRUE
    ELSE IF v.type = "string" THEN Len(trim(v.val)) = 0
    ELSE IF v.type \in {"array", "object"}
    THEN \A i \in 1..Len(v.val) : isEmptyValue_falsyIsEmpty(v.val[i])
    ELSE IF v.type = "number" THEN v.val = 0
    ELSE ~v.val

RECURSIVE isEmptyValue(_)
isEmptyValue(v) ==
    IF v.type = "null" THEN TRUE
    ELSE IF v.type = "string" THEN Len(trim(v.val)) = 0
    ELSE IF v.type = "array"
    THEN Len(v.val) = 0 \/ \A i \in 1..Len(v.val) : isEmptyValue(v.val[i])
    ELSE IF v.type = "object"
    THEN Len(v.val) = 0 \/ \A i \in 1..Len(v.val) : isEmptyValue(v.val[i])
    ELSE FALSE

(***************************************************************************)
(* The worker: POST /api/vote and the votes table.                         *)
(***************************************************************************)
\* "top", "bottom", "none", "no_preference", "nopreference"
TOP == <<116, 111, 112>>

BOTTOM == <<98, 111, 116, 116, 111, 109>>

NONE == <<110, 111, 110, 101>>

NO_PREFERENCE == <<110, 111, 95, 112, 114, 101, 102, 101, 114, 101, 110, 99, 101>>

NOPREFERENCE == <<110, 111, 112, 114, 101, 102, 101, 114, 101, 110, 99, 101>>

\* a thrown Error: no code unit is negative, so no string equals it
Thrown == <<-2>>

\* a plausible slip: an unknown word counts as no preference
normalizePreferred_othersAsTie(p) ==
    LET v == trim(toLowerCase(StringOr(p)))
    IN  IF v = LEFT \/ v = TOP THEN LEFT
        ELSE IF v = RIGHT \/ v = BOTTOM THEN RIGHT
        ELSE TIE

normalizePreferred(p) ==
    LET v == trim(toLowerCase(StringOr(p)))
    IN  IF v = LEFT \/ v = TOP THEN LEFT
        ELSE IF v = RIGHT \/ v = BOTTOM THEN RIGHT
        ELSE IF v = TIE \/ v = NONE \/ v = NO_PREFERENCE \/ v = NOPREFERENCE THEN TIE
        ELSE Thrown

\* a plausible slip: an unknown word falls through to the last outcome
normalizeResolvedPreferred_othersAsRight(p) ==
    LET v == trim(toLowerCase(StringOr(p)))
    IN  IF v = LEFT \/ v = TOP THEN LEFT ELSE RIGHT

normalizeResolvedPreferred(p) ==
    LET v == trim(toLowerCase(StringOr(p)))
    IN  IF v = LEFT \/ v = TOP THEN LEFT
        ELSE IF v = RIGHT \/ v = BOTTOM THEN RIGHT
        ELSE Thrown

\* vote[k] == null || String(vote[k]).trim() === ""
missing(v) == v = NULL \/ trim(v) = <<>>

\* the fields of the required loop that the model carries as strings
required == {"component", "left_method_id", "right_method_id", "preferred"}

\* the resolved_preferred of the row: the given one when there is one, the
\* preference itself when it is a side, an Error for a tie without one
resolvedOf(vote, preferred) ==
    IF ~missing(vote.resolved_preferred)
    THEN normalizeResolvedPreferred(vote.resolved_preferred)
    ELSE IF preferred = TIE THEN Thrown
    ELSE preferred

\* "uuid-": crypto.randomUUID() is the n-th fresh id, equal to no other id
UUID == <<117, 117, 105, 100, 45>>

randomUUID(n) == UUID \o NumStr(n + 1)

\* String(vote.id || crypto.randomUUID())
rowId(vote, n) == IF vote.id = NULL \/ vote.id = <<>> THEN randomUUID(n) ELSE vote.id

\* INSERT ... ON CONFLICT(id) DO UPDATE SET every other column
dbUpsertVote(table, row) == {r \in table : r.id # row.id} \cup {row}

\* POST /api/vote on the table with n uuids drawn so far: the status of the
\* response, the table and the number of uuids afterwards.  body.token is
\* the participant_id of the verified token, NULL when the body has none;
\* an Error thrown by a normalizer ends the request with status 500.
apiVote(table, n, body) ==
    LET vote      == body.vote
        preferred == normalizePreferred(vote.preferred)
        resolved  == resolvedOf(vote, preferred)
        row       == [id                 |-> rowId(vote, n),
                      participant_id     |-> body.token,
                      component          |-> vote.component,
                      trial_id           |-> vote.trial_id,
                      left_method_id     |-> vote.left_method_id,
                      right_method_id    |-> vote.right_method_id,
                      preferred          |-> preferred,
                      resolved_preferred |-> resolved]
        failed(status) == [status |-> status, votes |-> table, uuids |-> n]
    IN  IF body.token = NULL THEN failed(400)
        ELSE IF StringOr(vote.participant_id) # body.token THEN failed(403)
        ELSE IF \E k \in required : missing(vote[k]) THEN failed(400)
        ELSE IF preferred = Thrown \/ resolved = Thrown THEN failed(500)
        ELSE [status |-> 200,
              votes  |-> dbUpsertVote(table, row),
              uuids  |-> IF row.id = vote.id THEN n ELSE n + 1]

(***************************************************************************)
(* SurveyPage: the state of one session and its handlers.                  *)
(***************************************************************************)
VARIABLES
    participantId,    \* the participant of the session, "" when there is none
    activeComponent,  \* the component selected in the toolbar
    methods,          \* the ids whose loaded data is non-empty for the component
    history,          \* the local vote log
    pair,             \* the pair the page shows: nextPair's result at render
    switches,         \* how many times the component was changed
    args,             \* the arguments of a call of a pure function
    result,           \* <<its result>>, << >> before the call
    votes,            \* the worker's votes table, a set of rows
    uuids,            \* how many ids crypto.randomUUID() has given
    request,          \* <<the body of the last POST /api/vote>>, << >> when none
    response,         \* <<the status of its response>>, << >> while in flight
    devices,          \* the page of one participant on each of its devices
    lost,             \* how many submissions did not reach the worker
    access_codes,     \* uses_remaining of the access code, NULL when unlimited
    participants,     \* how many rows the participants table holds
    starts            \* each POST /api/start: where it is, the doc it read, its status

worker == <<votes, uuids, request, response>>

fleet == <<devices, lost>>

start == <<access_codes, participants, starts>>

vars == <<participantId, activeComponent, methods, history, pair, switches, args, result,
          votes, uuids, request, response, devices, lost, start>>

\* the devices of the participant
Devices == {"deviceA", "deviceB"}

\* a device on which the page is not open
Closed ==
    [open |-> FALSE, manifest |-> FALSE, fetch |-> "none", history |-> <<>>, pair |-> NULL]

\* no device has the page open
NoFleet == devices = [d \in Devices |-> Closed] /\ lost = 0

\* no request has reached the worker
NoStart == access_codes = NULL /\ participants = 0 /\ starts = <<>>

NoWorker == votes = {} /\ uuids = 0 /\ request = <<>> /\ response = <<>>

\* the participant ids of a session: none ("") or the one the worker issued
Participants == {<<>>, P1}

\* manifest.methods.map(id).filter(non-empty for the component)
validMethodIds(loaded) == SelectSeq(ManifestIds, LAMBDA id : id \in loaded)

\* the pair computed at render
renderPair(pid, component, loaded, hist) ==
    IF Len(validMethodIds(loaded)) >= 2 /\ component # <<>>
    THEN nextPair(pid, component, validMethodIds(loaded), hist)
    ELSE NULL

RECURSIVE maxTrial(_, _, _, _)
\* history.filter(...).reduce((mx, r) => Math.max(mx, r.trial_id), 0)
maxTrial(pid, component, hist, i) ==
    IF i > Len(hist) THEN 0
    ELSE LET rest == maxTrial(pid, component, hist, i + 1)
             r    == hist[i]
         IN  IF r.participant_id = pid /\ r.component = component /\ r.trial_id > rest
             THEN r.trial_id
             ELSE rest

\* a plausible slip: a tie is recorded without being resolved
voteObj_tieUnresolved(pid, component, trialId, leftId, rightId, preferred) ==
    [id                 |-> makeVoteId(pid, component, trialId),
     participant_id     |-> pid,
     component          |-> component,
     trial_id           |-> trialId,
     left_method_id     |-> leftId,
     right_method_id    |-> rightId,
     preferred          |-> preferred,
     resolved_preferred |-> preferred]

\* the vote object vote() builds
voteObj(pid, component, trialId, leftId, rightId, preferred) ==
    [id                 |-> makeVoteId(pid, component, trialId),
     participant_id     |-> pid,
     component          |-> component,
     trial_id           |-> trialId,
     left_method_id     |-> leftId,
     right_method_id    |-> rightId,
     preferred          |-> preferred,
     resolved_preferred |-> IF preferred = TIE
                            THEN resolveTiePreferred(pid, component, trialId, leftId, rightId)
                            ELSE preferred]

\* vote(preferred): a click on one of the three buttons.  The row is appended
\* to the local log before the submission is sent; on the page the outcome
\* of the submission changes only the status line (the worker's votes table
\* is not part of this session state).
vote(preferred) ==
    /\ pair # NULL
    /\ participantId # <<>>
    /\ LET trialId == maxTrial(participantId, activeComponent, history, 1) + 1
       IN  history' = Append(history, voteObj(participantId, activeComponent, trialId,
                                              pair[1], pair[2], preferred))
    /\ pair' = renderPair(participantId, activeComponent, methods, history')
    /\ UNCHANGED <<participantId, activeComponent, methods, switches, args, result, worker, fleet, start>>

\* changes of the component in one session
MaxSwitches == 1

\* the component select's onChange
setActiveComponent(c) ==
    /\ participantId # <<>>
    /\ c # activeComponent
    /\ switches < MaxSwitches
    /\ switches' = switches + 1
    /\ activeComponent' = c
    /\ pair' = renderPair(participantId, c, methods, history)
    /\ UNCHANGED <<participantId, methods, history, args, result, worker, fleet, start>>

Init ==
    /\ participantId \in Participants
    /\ activeComponent = Components[1]
    /\ methods \in SUBSET Range(ManifestIds)
    /\ history = <<>>
    /\ pair = renderPair(participantId, activeComponent, methods, history)
    /\ switches = 0
    /\ args = NULL
    /\ result = <<>>
    /\ NoWorker
    /\ NoFleet
    /\ NoStart

Next ==
    \/ \E preferred \in {LEFT, RIGHT, TIE} : vote(preferred)
    \/ \E c \in Range(Components) : setActiveComponent(c)

Spec == Init /\ [][Next]_vars

(***************************************************************************)
(* The pure functions applied to inputs drawn from bounded sets.           *)
(***************************************************************************)
\* trial ids of the drawn inputs
MaxTrialId == 2

\* rows of the two logs given to mergeHistory, together
MaxRows == 2

\* no session: the page's state while a pure function is applied
NoSession ==
    /\ participantId = <<>>
    /\ activeComponent = <<>>
    /\ methods = {}
    /\ history = <<>>
    /\ pair = NULL
    /\ switches = 0

TieArgs ==
    [pid : {<<>>, P1, P2}, component : Range(Components), trialId : 1..MaxTrialId,
     leftId : Range(AllMethods), rightId : Range(AllMethods)]

InitTie ==
    NoSession /\ args \in TieArgs /\ result = <<>> /\ NoWorker /\ NoFleet /\ NoStart

callResolveTie ==
    /\ result = <<>>
    /\ result' = <<resolveTiePreferred(args.pid, args.component, args.trialId,
                                       args.leftId, args.rightId)>>
    /\ UNCHANGED <<participantId, activeComponent, methods, history, pair, switches, args, worker, fleet, start>>

SpecTie == InitTie /\ [][callResolveTie]_vars

\* the rows of the drawn logs: the methods are fixed, the outcome varies
MergeRows ==
    {voteObj(p, c, t, mH, mX, pref) :
        p \in {P1, P2}, c \in Range(Components), t \in 1..MaxTrialId, pref \in {LEFT, RIGHT}}

\* the pairs of logs of at most MaxRows rows together, and every log of at
\* most MaxRows rows paired with itself
MergeArgs ==
    UNION ({[localRows : [1..n[1] -> MergeRows], remoteRows : [1..n[2] -> MergeRows]] :
               n \in {m \in (0..MaxRows) \X (0..MaxRows) : m[1] + m[2] <= MaxRows}}
           \cup {{[localRows |-> a, remoteRows |-> a] : a \in [1..n -> MergeRows]} :
                    n \in 0..MaxRows})

InitMerge ==
    NoSession /\ args \in MergeArgs /\ result = <<>> /\ NoWorker /\ NoFleet /\ NoStart

callMergeHistory ==
    /\ result = <<>>
    /\ result' = <<mergeHistory(args.localRows, args.remoteRows)>>
    /\ UNCHANGED <<participantId, activeComponent, methods, history, pair, switches, args, worker, fleet, start>>

SpecMerge == InitMerge /\ [][callMergeHistory]_vars

\* "Action Space!", "Action_Space", " cautions": component names a manifest
\* can carry beside the two of the survey
ActionSpaceTitle == <<65, 99, 116, 105, 111, 110, 32, 83, 112, 97, 99, 101, 33>>

ActionSpaceId == <<65, 99, 116, 105, 111, 110, 95, 83, 112, 97, 99, 101>>

CautionsPadded == <<32>> \o Cautions

VoteIdComponents ==
    Range(Components) \cup {ActionSpaceTitle, ActionSpaceId, CautionsPadded}

VoteIdTriples ==
    [pid : {P1, P2}, component : VoteIdComponents, trialId : 1..MaxTrialId]

VoteIdArgs == [first : VoteIdTriples, second : VoteIdTriples]

InitVoteId ==
    NoSession /\ args \in VoteIdArgs /\ result = <<>> /\ NoWorker /\ NoFleet /\ NoStart

callMakeVoteId ==
    /\ result = <<>>
    /\ result' = <<makeVoteId(args.first.pid, args.first.component, args.first.trialId),
                   makeVoteId(args.second.pid, args.second.component, args.second.trialId)>>
    /\ UNCHANGED <<participantId, activeComponent, methods, history, pair, switches, args, worker, fleet, start>>

SpecVoteId == InitVoteId /\ [][callMakeVoteId]_vars

(***************************************************************************)
(* The worker under POST /api/vote requests of any client.                 *)
(***************************************************************************)
\* "Top", " right ", "BOTTOM", "None", "both", "  "
TopCapital == <<84, 111, 112>>

RightPadded == <<32, 114, 105, 103, 104, 116, 32>>

BottomUpper == <<66, 79, 84, 84, 79, 77>>

NoneCapital == <<78, 111, 110, 101>>

BOTH == <<98, 111, 116, 104>>

BLANK == <<32, 32>>

\* the values of preferred and resolved_preferred the requests carry
PreferredInputs ==
    {LEFT, TopCapital, RightPadded, BottomUpper, TIE, NoneCapital, NO_PREFERENCE,
     NOPREFERENCE, BOTH, BLANK, <<>>, NULL}

ResolvedInputs == {NULL, BLANK, LEFT, BottomUpper, TIE, BOTH}

\* ids drawn by crypto.randomUUID()
MaxUuids == 1

\* the vote of a request: trial 1 of one component, between two methods
voteOf(id, pid, preferred, resolved) ==
    [id                 |-> id,
     participant_id     |-> pid,
     component          |-> Components[1],
     trial_id           |-> 1,
     left_method_id     |-> mH,
     right_method_id    |-> mX,
     preferred          |-> preferred,
     resolved_preferred |-> resolved]

\* requests of one participant with the page's id, any preference words
ValidationRequests ==
    {[token |-> P1, vote |-> voteOf(makeVoteId(P1, Components[1], 1), P1, p, r)] :
        p \in PreferredInputs, r \in ResolvedInputs}

\* requests of either participant for either participant: with the id of
\* either participant's page, without an id, and one without a token
IdentityRequests ==
    {[token |-> t, vote |-> voteOf(makeVoteId(owner, Components[1], 1), pid, p, NULL)] :
        t \in {P1, P2}, pid \in {P1, P2}, p \in {LEFT, RIGHT}, owner \in {P1, P2}}
    \cup {[token |-> t, vote |-> voteOf(NULL, pid, LEFT, NULL)] :
             t \in {P1, P2}, pid \in {P1, P2}}
    \cup {[token |-> NULL, vote |-> voteOf(NULL, P1, LEFT, NULL)]}

VoteRequests == ValidationRequests \cup IdentityRequests

\* a client sends a request once the previous one is answered
postVote(body) ==
    /\ request = <<>> \/ response # <<>>
    /\ body.vote.id = NULL => uuids < MaxUuids
    /\ request' = <<body>>
    /\ response' = <<>>
    /\ UNCHANGED <<participantId, activeComponent, methods, history, pair, switches,
                   args, result, votes, uuids, fleet, start>>

\* the worker's fetch handler on the request in flight
fetchVote ==
    /\ request # <<>>
    /\ response = <<>>
    /\ LET done == apiVote(votes, uuids, request[1])
       IN  /\ votes' = done.votes
           /\ uuids' = done.uuids
           /\ response' = <<done.status>>
    /\ UNCHANGED <<participantId, activeComponent, methods, history, pair, switches,
                   args, result, request, fleet, start>>

InitWorker == NoSession /\ args = NULL /\ result = <<>> /\ NoWorker /\ NoFleet /\ NoStart

NextWorker ==
    \/ \E body \in VoteRequests : postVote(body)
    \/ fetchVote

SpecWorker == InitWorker /\ [][NextWorker]_vars

(***************************************************************************)
(* The eligible list under component values of any shape.                  *)
(***************************************************************************)
\* items of an array and keys of an object in the drawn values
MaxItems == 2

\* null, "", "  ", "a", 0, 1, false, true
Scalars ==
    {[type |-> "null", val |-> NULL]}
        \cup {[type |-> "string", val |-> c] : c \in {<<>>, BLANK, <<97>>}}
        \cup {[type |-> "number", val |-> n] : n \in {0, 1}}
        \cup {[type |-> "boolean", val |-> b] : b \in BOOLEAN}

\* the arrays and the objects of at most n members taken from a set
Containers(members, n) ==
    UNION {{[type |-> t, val |-> items] : t \in {"array", "object"},
                                           items \in [1..k -> members]} : k \in 0..n}

\* the scalars, the containers of scalars, and the containers of one of those
JsonValues ==
    LET flat == Scalars \cup Containers(Scalars, MaxItems)
    IN  flat \cup Containers(flat, 1)

\* one method of the manifest with its data loaded or not and its value for
\* the component (null when the data has no key for it); the data of the
\* other methods is loaded with the value "a"
EligibleArgs == [id : Range(ManifestIds), loaded : BOOLEAN, value : JsonValues]

InitEligible == NoSession /\ args \in EligibleArgs /\ result = <<>> /\ NoWorker /\ NoFleet /\ NoStart

\* validMethodIds: the ids whose data is loaded with a non-empty value
callValidMethodIds ==
    /\ result = <<>>
    /\ result' = <<validMethodIds(
                      {id \in Range(ManifestIds) :
                          IF id = args.id THEN args.loaded /\ ~isEmptyValue(args.value)
                          ELSE ~isEmptyValue([type |-> "string", val |-> <<97>>])})>>
    /\ UNCHANGED <<participantId, activeComponent, methods, history, pair, switches, args, worker, fleet, start>>

SpecEligible == InitEligible /\ [][callValidMethodIds]_vars

(***************************************************************************)
(* nextPair after one row whose outcome fields hold any value.             *)
(***************************************************************************)
\* "Right"
RightCapital == <<82, 105, 103, 104, 116>>

\* the values of the outcome fields of the last row
StoredPreferred == {NULL, <<>>, LEFT, RIGHT, TIE, BOTH}

StoredResolved == {NULL, <<>>, LEFT, RightCapital, BOTH}

\* the rows of trial t between two different methods of the manifest
LastRows ==
    LET sides == {x \in Range(ManifestIds) \X Range(ManifestIds) : x[1] # x[2]}
    IN  {[voteObj(P1, Components[1], t, x[1], x[2], LEFT)
             EXCEPT !.preferred = p, !.resolved_preferred = q] :
            t \in 1..MaxTrialId, x \in sides,
            p \in StoredPreferred, q \in StoredResolved}

ChampionArgs == [last : LastRows]

InitChampion ==
    NoSession /\ args \in ChampionArgs /\ result = <<>> /\ NoWorker /\ NoFleet /\ NoStart

callNextPair ==
    /\ result = <<>>
    /\ result' = <<nextPair(P1, Components[1], ManifestIds, <<args.last>>)>>
    /\ UNCHANGED <<participantId, activeComponent, methods, history, pair, switches, args, worker, fleet, start>>

SpecChampion == InitChampion /\ [][callNextPair]_vars

(***************************************************************************)
(* POST /api/start: concurrent requests with one access code.              *)
(***************************************************************************)
MaxUses == 2

MaxStarts == 3

\* uses_remaining of an access_codes row: NULL or <<a number>>
UsesRemaining == {NULL} \cup {<<k>> : k \in 0..MaxUses}

\* dbGetAccessCode: <<uses_remaining of the row>>, << >> when there is no row
dbGetAccessCode(known) == IF known THEN <<access_codes>> ELSE <<>>

\* the UPDATE leaves a row whose uses_remaining is NULL or not above 0 alone
dbDecrementUsesRemaining(uses) ==
    IF uses # NULL /\ uses[1] > 0 THEN <<uses[1] - 1>> ELSE uses

\* a request before its handler reads the access code
Arrived(known) == [at |-> "dbGetAccessCode", known |-> known, status |-> 0]

\* the handler up to the end of its first query: 403 without a row or
\* with no use left, else on to the decrement or to the allocation
startRead(i) ==
    /\ starts[i].at = "dbGetAccessCode"
    /\ LET doc == dbGetAccessCode(starts[i].known)
       IN  starts' = [starts EXCEPT ![i] =
               IF doc = <<>> THEN [@ EXCEPT !.at = "done", !.status = 403]
               ELSE IF doc[1] # NULL /\ doc[1][1] <= 0
                    THEN [@ EXCEPT !.at = "done", !.status = 403]
               ELSE IF doc[1] # NULL THEN [@ EXCEPT !.at = "dbDecrementUsesRemaining"]
               ELSE [@ EXCEPT !.at = "allocateParticipantId"]]
    /\ UNCHANGED <<participantId, activeComponent, methods, history, pair, switches,
                   args, result, worker, fleet, access_codes, participants>>

startDecrement(i) ==
    /\ starts[i].at = "dbDecrementUsesRemaining"
    /\ access_codes' = dbDecrementUsesRemaining(access_codes)
    /\ starts' = [starts EXCEPT ![i].at = "allocateParticipantId"]
    /\ UNCHANGED <<participantId, activeComponent, methods, history, pair, switches,
                   args, result, worker, fleet, participants>>

\* allocateParticipantId, makeToken and the response
startAllocate(i) ==
    /\ starts[i].at = "allocateParticipantId"
    /\ participants' = participants + 1
    /\ starts' = [starts EXCEPT ![i].at = "done", ![i].status = 200]
    /\ UNCHANGED <<participantId, activeComponent, methods, history, pair, switches,
                   args, result, worker, fleet, access_codes>>

InitStart ==
    /\ NoSession
    /\ args \in [uses_remaining : UsesRemaining]
    /\ result = <<>>
    /\ NoWorker
    /\ NoFleet
    /\ access_codes = args.uses_remaining
    /\ participants = 0
    /\ starts \in [1..MaxStarts -> {Arrived(known) : known \in BOOLEAN}]

NextStart ==
    \E i \in 1..MaxStarts : startRead(i) \/ startDecrement(i) \/ startAllocate(i)

SpecStart == InitStart /\ [][NextStart]_vars

(***************************************************************************)
(* Two runs of one tournament, each on a page that stays offline.          *)
(***************************************************************************)
\* vote() on the page of run d; the submission fails and sets the status line
voteTwin(d, preferred) ==
    /\ devices[d].pair # NULL
    /\ LET dev     == devices[d]
           trialId == maxTrial(participantId, activeComponent, dev.history, 1) + 1
           row     == voteObj(participantId, activeComponent, trialId,
                              dev.pair[1], dev.pair[2], preferred)
           hist    == Append(dev.history, row)
       IN  devices' = [devices EXCEPT ![d] =
               [dev EXCEPT !.history = hist,
                           !.pair = renderPair(participantId, activeComponent, methods, hist)]]
    /\ UNCHANGED <<participantId, activeComponent, methods, history, pair, switches,
                   args, result, worker, lost, start>>

InitTwin ==
    /\ participantId \in {P1, P2}
    /\ activeComponent = Components[1]
    /\ methods = Range(ManifestIds)
    /\ history = <<>>
    /\ pair = NULL
    /\ switches = 0
    /\ args = NULL
    /\ result = <<>>
    /\ NoWorker
    /\ devices = [d \in Devices |->
                     [open |-> TRUE, manifest |-> TRUE, fetch |-> "failed", history |-> <<>>,
                      pair |-> renderPair(participantId, activeComponent, methods, <<>>)]]
    /\ lost = 0
    /\ NoStart

NextTwin == \E d \in Devices, preferred \in {LEFT, RIGHT, TIE} : voteTwin(d, preferred)

SpecTwin == InitTwin /\ [][NextTwin]_vars

(***************************************************************************)
(* The page of one participant on two devices, and the worker.             *)
(***************************************************************************)
\* submissions that do not reach the worker
MaxLost == 1

\* the participant of both devices and the component it works on
Owner == P1

Topic == Components[1]

\* the methods with a non-empty value for the component
Loaded == {mH, mX, mG}

\* the rows of a participant in the order of the SELECT
ordered(s) ==
    \A i, j \in 1..Len(s) :
        i < j =>
            \/ StrLess(s[i].component, s[j].component)
            \/ s[i].component = s[j].component /\ s[i].trial_id <= s[j].trial_id

\* POST /api/history: the participant's rows ORDER BY component, trial_id;
\* rows equal in both come in either order
apiHistory(table, pid) ==
    LET rows == {r \in table : r.participant_id = pid}
    IN  {s \in [1..Cardinality(rows) -> rows] : Range(s) = rows /\ ordered(s)}

\* the page as rendered from the state of device d
render(dev) ==
    [dev EXCEPT !.pair = IF dev.manifest
                         THEN renderPair(Owner, Topic, Loaded, dev.history)
                         ELSE NULL]

\* SurveyPage mounts on a device without stored votes: the history request
\* and the manifest request are sent
openSession(d) ==
    /\ ~devices[d].open
    /\ devices' = [devices EXCEPT ![d] = [Closed EXCEPT !.open = TRUE, !.fetch = "pending"]]
    /\ UNCHANGED <<participantId, activeComponent, methods, history, pair, switches,
                   args, result, worker, lost, start>>

\* the manifest and the method files have arrived: the page shows a pair
manifestLoaded(d) ==
    /\ devices[d].open
    /\ ~devices[d].manifest
    /\ devices' = [devices EXCEPT ![d] = render([@ EXCEPT !.manifest = TRUE])]
    /\ UNCHANGED <<participantId, activeComponent, methods, history, pair, switches,
                   args, result, worker, lost, start>>

\* the history request of device d is answered:
\* if (remote.length) setHistory(mergeHistory(prev, remote))
historyLoaded(d) ==
    /\ devices[d].fetch = "pending"
    /\ \E remote \in apiHistory(votes, Owner) :
          LET dev    == devices[d]
              merged == IF Len(remote) = 0 THEN dev.history
                        ELSE mergeHistory(dev.history, remote)
          IN  devices' = [devices EXCEPT ![d] =
                             render([dev EXCEPT !.fetch = "done", !.history = merged])]
    /\ UNCHANGED <<participantId, activeComponent, methods, history, pair, switches,
                   args, result, worker, lost, start>>

\* the history request fails: the error is ignored
historyFailed(d) ==
    /\ devices[d].fetch = "pending"
    /\ devices' = [devices EXCEPT ![d] = [@ EXCEPT !.fetch = "failed"]]
    /\ UNCHANGED <<participantId, activeComponent, methods, history, pair, switches,
                   args, result, worker, lost, start>>

\* vote(preferred) on device d: the row is appended to the local log, then
\* posted; the request reaches the worker, which stores the row, or it does
\* not, and the page only reports that the vote is saved locally
castVote(d, preferred, delivered) ==
    /\ devices[d].open
    /\ devices[d].pair # NULL
    /\ LET dev     == devices[d]
           trialId == maxTrial(Owner, Topic, dev.history, 1) + 1
           row     == voteObj(Owner, Topic, trialId, dev.pair[1], dev.pair[2], preferred)
       IN  /\ devices' = [devices EXCEPT ![d] =
                              render([dev EXCEPT !.history = Append(dev.history, row)])]
           /\ IF delivered
              THEN /\ votes' = apiVote(votes, uuids, [token |-> Owner, vote |-> row]).votes
                   /\ lost' = lost
              ELSE /\ lost < MaxLost
                   /\ lost' = lost + 1
                   /\ votes' = votes
    /\ UNCHANGED <<participantId, activeComponent, methods, history, pair, switches,
                   args, result, uuids, request, response, start>>

InitSystem ==
    /\ NoSession
    /\ args = NULL
    /\ result = <<>>
    /\ NoWorker
    /\ devices = [d \in Devices |->
                     IF d = "deviceA" THEN [Closed EXCEPT !.open = TRUE, !.fetch = "pending"]
                     ELSE Closed]
    /\ lost = 0
    /\ NoStart

NextSystem ==
    \/ \E d \in Devices : openSession(d)
    \/ \E d \in Devices : manifestLoaded(d)
    \/ \E d \in Devices : historyLoaded(d)
    \/ \E d \in Devices : historyFailed(d)
    \/ \E d \in Devices, preferred \in {LEFT, RIGHT, TIE}, delivered \in BOOLEAN :
          castVote(d, preferred, delivered)

SpecSystem == InitSystem /\ [][NextSystem]_vars

(***************************************************************************)
(* Properties of the scheduler in a session (Spec).                        *)
(***************************************************************************)
\* the rows of the session's participant and active component, as a set
ActiveRows ==
    {history[i] : i \in {j \in 1..Len(history) :
        /\ history[j].participant_id = participantId
        /\ history[j].component = activeComponent}}

\* the number of eligible methods of the active component
Eligible == Range(validMethodIds(methods))

\* the row with the highest trial_id
LastRow == CHOOSE r \in ActiveRows : \A q \in ActiveRows : q.trial_id <= r.trial_id

\* the method a row's resolved outcome designates
Winner(r) ==
    IF r.resolved_preferred = LEFT THEN r.left_method_id ELSE r.right_method_id

\* the methods that occur in the rows of the participant and component
SeenMethods ==
    {r.left_method_id : r \in ActiveRows} \cup {r.right_method_id : r \in ActiveRows}

\* C1: with N >= 2 eligible methods and a participant, the page shows a pair
\* while fewer than N-1 votes of the component are recorded and none once
\* N-1 are: nextPair returns a pair exactly N-1 times, then null.
C1_TournamentLength ==
    (participantId # <<>> /\ Cardinality(Eligible) >= 2) =>
        /\ Cardinality(ActiveRows) <= Cardinality(Eligible) - 1
        /\ (pair = NULL) <=> (Cardinality(ActiveRows) = Cardinality(Eligible) - 1)

C1_Witness ==
    /\ participantId # <<>>
    /\ Cardinality(Eligible) = MaxMethods
    /\ Cardinality(ActiveRows) = MaxMethods - 1
    /\ pair = NULL

\* C2: when the filtered history is not empty and a pair is returned, its
\* first element is the method the resolved outcome of the row with the
\* highest trial_id designates.
C2_ChampionIsLastWinner ==
    (pair # NULL /\ ActiveRows # {}) =>
        /\ LastRow.resolved_preferred \in {LEFT, RIGHT}
        /\ pair[1] = Winner(LastRow)

C2_Witness ==
    /\ pair # NULL
    /\ Cardinality(ActiveRows) >= 2
    /\ LastRow.resolved_preferred = RIGHT
    /\ pair[1] = LastRow.right_method_id

\* C3: the challenger of a non-empty history is eligible, occurs in no row
\* of the participant and component, and differs from the champion.
C3_ChallengerUnseen ==
    (pair # NULL /\ ActiveRows # {}) =>
        /\ pair[2] \in Eligible
        /\ pair[2] \notin SeenMethods
        /\ pair[2] # pair[1]

C3_Witness ==
    /\ pair # NULL
    /\ ActiveRows # {}
    /\ Cardinality(Eligible \ SeenMethods) >= 2
    /\ \E i \in 1..Len(history) : history[i].component # activeComponent

\* C4: nextPair returns null exactly when the participant id is empty, or
\* fewer than two methods are eligible, or the history is not empty and no
\* eligible method is unseen (not appeared and not the champion).
C4_NullExactly ==
    (pair = NULL) <=>
        \/ participantId = <<>>
        \/ Cardinality(Eligible) < 2
        \/ /\ ActiveRows # {}
           /\ {m \in Eligible : m \notin SeenMethods /\ m # Winner(LastRow)} = {}

C4_Witness ==
    /\ pair = NULL
    /\ participantId # <<>>
    /\ Cardinality(Eligible) >= 3
    /\ ActiveRows # {}

\* C7: for every tie vote, the method the stored resolved_preferred
\* designates is the champion nextPair infers from the same row carrying
\* preferred = "tie" and no resolved_preferred.
C7_TieReplayAgrees ==
    \A i \in 1..Len(history) :
        history[i].preferred = TIE =>
            /\ history[i].resolved_preferred \in {LEFT, RIGHT}
            /\ championOf(history[i].participant_id, history[i].component,
                          [history[i] EXCEPT !.resolved_preferred = NULL])
               = Winner(history[i])

C7_Witness ==
    \E i \in 1..Len(history) :
        /\ history[i].preferred = TIE
        /\ history[i].resolved_preferred = RIGHT
        /\ history[i].left_method_id \notin TOPA_FAVORITES
        /\ history[i].right_method_id \notin TOPA_FAVORITES
        /\ history[i].trial_id >= 2

(***************************************************************************)
(* Properties of tie resolution (SpecTie).                                 *)
(***************************************************************************)
\* the favoured methods, best first
FavoredBestFirst == <<mH, mI, mG>>

FavoredRank(m) == CHOOSE i \in 1..Len(FavoredBestFirst) : FavoredBestFirst[i] = m

\* the method on the side resolveTie returned, and the one on the other side
TieKept == IF result[1] = LEFT THEN args.leftId ELSE args.rightId

TieDropped == IF result[1] = LEFT THEN args.rightId ELSE args.leftId

\* C6: resolveTie returns left or right; with both methods favoured it is the
\* side of the better-ranked one (H, then I, then G), with exactly one
\* favoured it is the side of the favoured one.
C6_FavoritesPrecedence ==
    result # <<>> =>
        /\ result[1] \in {LEFT, RIGHT}
        /\ (args.leftId \in Range(FavoredBestFirst) /\ args.rightId \in Range(FavoredBestFirst))
               => FavoredRank(TieKept) <= FavoredRank(TieDropped)
        /\ ((args.leftId \in Range(FavoredBestFirst)) # (args.rightId \in Range(FavoredBestFirst)))
               => TieKept \in Range(FavoredBestFirst)

C6_Witness ==
    /\ result = <<RIGHT>>
    /\ args.leftId = mG
    /\ args.rightId = mI

(***************************************************************************)
(* Properties of history reconciliation (SpecMerge).                       *)
(***************************************************************************)
\* the key of a row, as a tuple
KeyOf(r) == <<r.participant_id, r.component, r.trial_id>>

KeysOf(rows) == {KeyOf(rows[i]) : i \in 1..Len(rows)}

\* C8: for a key present in both logs the merged log holds a row, and every
\* merged row of that key is a remote row, not the local one.
C8_RemoteAuthoritative ==
    result # <<>> =>
        \A k \in KeysOf(args.localRows) \cap KeysOf(args.remoteRows) :
            /\ \E o \in Range(result[1]) : KeyOf(o) = k
            /\ \A o \in Range(result[1]) : KeyOf(o) = k => o \in Range(args.remoteRows)

C8_Witness ==
    /\ result # <<>>
    /\ \E l \in Range(args.localRows), r \in Range(args.remoteRows) :
          /\ KeyOf(l) = KeyOf(r)
          /\ l # r
          /\ r \in Range(result[1])
          /\ l \notin Range(result[1])

\* C9: the merged log holds exactly one row for every key of either log and
\* no other key, and a key of the local log alone is held by a local row.
C9_OneRowPerKey ==
    result # <<>> =>
        /\ KeysOf(result[1]) = KeysOf(args.localRows) \cup KeysOf(args.remoteRows)
        /\ \A i, j \in 1..Len(result[1]) :
              KeyOf(result[1][i]) = KeyOf(result[1][j]) => i = j
        /\ \A o \in Range(result[1]) :
              KeyOf(o) \notin KeysOf(args.remoteRows) => o \in Range(args.localRows)

C9_Witness ==
    /\ result # <<>>
    /\ Len(args.localRows) = 1
    /\ Len(args.remoteRows) = 1
    /\ args.localRows[1].participant_id # args.remoteRows[1].participant_id
    /\ args.localRows[1].component = args.remoteRows[1].component
    /\ args.localRows[1].trial_id = args.remoteRows[1].trial_id
    /\ args.localRows[1] \in Range(result[1])
    /\ Len(result[1]) = 2

\* a before b in the order of strings by code units
LexBefore(a, b) ==
    \E k \in 1..Len(b) :
        /\ \A i \in 1..(k - 1) : i <= Len(a) /\ a[i] = b[i]
        /\ Len(a) >= k - 1
        /\ (Len(a) = k - 1 \/ a[k] < b[k])

\* C10: the merged rows are in ascending order of component and, within a
\* component, in ascending order of trial_id.
C10_MergedSorted ==
    result # <<>> =>
        \A i, j \in 1..Len(result[1]) :
            i < j =>
                \/ LexBefore(result[1][i].component, result[1][j].component)
                \/ /\ result[1][i].component = result[1][j].component
                   /\ result[1][i].trial_id <= result[1][j].trial_id

C10_Witness ==
    /\ result # <<>>
    /\ Len(args.remoteRows) = 2
    /\ LexBefore(args.remoteRows[2].component, args.remoteRows[1].component)
    /\ args.remoteRows[2].trial_id > args.remoteRows[1].trial_id
    /\ result[1] = <<args.remoteRows[2], args.remoteRows[1]>>

\* C11: for the merge M of any two logs, the merge of M with itself holds
\* the same set of rows as M, each once.
C11_MergeIdempotent ==
    result # <<>> =>
        LET again == mergeHistory(result[1], result[1])
        IN  Range(again) = Range(result[1]) /\ Len(again) = Len(result[1])

C11_Witness ==
    /\ result # <<>>
    /\ Len(args.localRows) = 1
    /\ Len(args.remoteRows) = 1
    /\ Len(result[1]) = 2
    /\ result[1] # args.remoteRows \o args.localRows
    /\ mergeHistory(result[1], result[1]) = result[1]

\* a log merged with itself
SelfMerge == result # <<>> /\ args.localRows = args.remoteRows

\* the place of the first occurrence of row r in log a
FirstAt(a, r) == CHOOSE i \in 1..Len(a) : a[i] = r /\ \A j \in 1..(i - 1) : a[j] # r

\* C12 as stated: for any log A, mergeHistory(A, A) holds the same set of
\* rows as A and its rows follow one another in the order they have in A.
C12_SelfMergeKeepsOrder ==
    SelfMerge =>
        /\ Range(result[1]) = Range(args.localRows)
        /\ \A i, j \in 1..Len(result[1]) :
              i < j => FirstAt(args.localRows, result[1][i])
                           < FirstAt(args.localRows, result[1][j])

\* no two rows of the log have the same key
DistinctKeys(a) == \A i, j \in 1..Len(a) : KeyOf(a[i]) = KeyOf(a[j]) => i = j

\* the log is in ascending order of component, then trial_id
Ordered(a) ==
    \A i, j \in 1..Len(a) :
        i < j =>
            \/ LexBefore(a[i].component, a[j].component)
            \/ a[i].component = a[j].component /\ a[i].trial_id <= a[j].trial_id

\* C12 amended: for any log A with one row per key, mergeHistory(A, A) holds
\* the same set of rows as A, each once; it is A itself when A is already in
\* ascending order of component and trial_id, and A re-ordered otherwise.
C12_SelfMergeOfKeyedLog ==
    (SelfMerge /\ DistinctKeys(args.localRows)) =>
        /\ Range(result[1]) = Range(args.localRows)
        /\ Len(result[1]) = Len(args.localRows)
        /\ Ordered(result[1])
        /\ Ordered(args.localRows) => result[1] = args.localRows

C12_Witness ==
    /\ SelfMerge
    /\ Len(args.localRows) = 2
    /\ DistinctKeys(args.localRows)
    /\ ~Ordered(args.localRows)
    /\ result[1] = <<args.localRows[2], args.localRows[1]>>

(***************************************************************************)
(* Properties of the vote ids (SpecVoteId).                                *)
(***************************************************************************)
\* C13: two triples (participant, component, trial number) that differ in
\* at least one position get different vote ids.
C13_VoteIdInjective ==
    (result # <<>> /\ args.first # args.second) => result[1] # result[2]

(***************************************************************************)
(* Properties of the worker (SpecWorker).                                  *)
(***************************************************************************)
\* C16: the votes table never holds two rows with the same
\* (participant_id, component, trial_id), whatever ids the requests carry.
C16_OneRowPerIdentity ==
    \A r, q \in votes : KeyOf(r) = KeyOf(q) => r = q

\* the request in flight and its preference words, trimmed and lower-cased
Handling == request # <<>> /\ response = <<>>

AskedPreferred == trim(toLowerCase(StringOr(request[1].vote.preferred)))

AskedResolved == trim(toLowerCase(StringOr(request[1].vote.resolved_preferred)))

LeftWords == {LEFT, TOP}

RightWords == {RIGHT, BOTTOM}

TieWords == {TIE, NONE, NO_PREFERENCE, NOPREFERENCE}

\* the request in flight is answered with an error and the table is as before
Rejected == response' # <<200>> /\ response' # <<>> /\ votes' = votes

\* the row the answered request has stored
StoredRow == CHOOSE r \in votes' : r.id = request[1].vote.id

\* C19: a request whose preferred, trimmed and lower-cased, is none of the
\* eight words is rejected and leaves the table unchanged; an accepted
\* request stores left for left/top, right for right/bottom, tie for the
\* four tie words.
C19_PreferredValidated ==
    [][Handling =>
          /\ AskedPreferred \notin (LeftWords \cup RightWords \cup TieWords) => Rejected
          /\ (response' = <<200>> /\ request[1].vote.id # NULL) =>
                /\ AskedPreferred \in LeftWords => StoredRow.preferred = LEFT
                /\ AskedPreferred \in RightWords => StoredRow.preferred = RIGHT
                /\ AskedPreferred \in TieWords => StoredRow.preferred = TIE]_vars

C19_Witness ==
    /\ request # <<>>
    /\ request[1].vote.preferred = BOTH
    /\ request[1].vote.resolved_preferred = LEFT
    /\ response = <<500>>
    /\ \E r \in votes : r.id = request[1].vote.id /\ r.preferred = TIE

\* C20: a request with a tie preference and no or a blank resolved_preferred
\* is rejected, and so is a request whose resolved_preferred is given and is
\* none of left, top, right, bottom; both leave the table unchanged.
C20_ResolvedValidated ==
    [][Handling =>
          /\ (AskedPreferred \in TieWords /\ AskedResolved = <<>>) => Rejected
          /\ (AskedResolved # <<>> /\ AskedResolved \notin (LeftWords \cup RightWords))
                => Rejected]_vars

C20_Witness ==
    /\ request # <<>>
    /\ request[1].vote.preferred = NoneCapital
    /\ request[1].vote.resolved_preferred = BLANK
    /\ response = <<500>>
    /\ \E r \in votes : r.id = request[1].vote.id /\ r.preferred = LEFT

(***************************************************************************)
(* Properties of the page on two devices with the worker (SpecSystem).     *)
(***************************************************************************)
\* the trial ids of the participant's rows of the component in a set of rows
TrialIds(rows) ==
    {r.trial_id : r \in {q \in rows : q.participant_id = Owner /\ q.component = Topic}}

\* the set is {1, ..., k} for some k >= 0
Contiguous(ids) == ids = 1..Cardinality(ids)

\* C14: the trial ids of the recorded votes of a participant and component
\* form {1, ..., k}, in the history of every device and in the votes table.
C14_TrialsContiguous ==
    /\ \A d \in Devices : Contiguous(TrialIds(Range(devices[d].history)))
    /\ Contiguous(TrialIds(votes))

\* the rows recorded anywhere: in a device's history or in the votes table
Recorded == votes \cup UNION {Range(devices[d].history) : d \in Devices}

\* C15: every recorded vote is between two different methods, both of them
\* on the eligible list.
C15_TwoDistinctEligible ==
    \A r \in Recorded :
        /\ r.left_method_id # r.right_method_id
        /\ r.left_method_id \in Range(validMethodIds(Loaded))
        /\ r.right_method_id \in Range(validMethodIds(Loaded))

C15_Witness ==
    /\ \E r \in votes : r.trial_id = 1 /\ r \notin Range(devices["deviceA"].history)
    /\ \E r \in votes : r.trial_id = 2 /\ r \in Range(devices["deviceA"].history)
    /\ devices["deviceB"].fetch = "done"
    /\ Len(devices["deviceB"].history) = 2

\* C17: a vote the table holds for a key stays: after every step the table
\* holds a vote of that key with the same methods and the same outcome.
C17_StoredVotesKept ==
    [][\A r \in votes :
          \E q \in votes' :
              /\ KeyOf(q) = KeyOf(r)
              /\ q.left_method_id = r.left_method_id
              /\ q.right_method_id = r.right_method_id
              /\ q.preferred = r.preferred
              /\ q.resolved_preferred = r.resolved_preferred]_vars

\* the worker holds a vote of the participant that the history of d lacks
ServerAhead(d) ==
    \E r \in votes : r.participant_id = Owner /\ r \notin Range(devices[d].history)

\* C18: when the worker holds votes of the participant that the page's
\* history lacks, no step of the page (a render, a vote) leaves it showing
\* a pair unless the server history has been merged.
C18_MergedBeforePair ==
    [][\A d \in Devices :
          (ServerAhead(d) /\ devices'[d] # devices[d] /\ devices'[d].pair # NULL)
              => devices'[d].fetch = "done"]_vars

\* C21: every vote vote() has put in a history and every row of the votes
\* table has resolved_preferred left or right, the votes of a tie included.
C21_ResolvedNeverTie ==
    \A r \in Recorded : r.resolved_preferred \in {LEFT, RIGHT}

C21_Witness ==
    /\ \E r \in votes : r.preferred = TIE /\ r.resolved_preferred = RIGHT
    /\ \E d \in Devices :
          \E r \in Range(devices[d].history) :
              r.preferred = TIE /\ r.resolved_preferred = LEFT /\ r \notin votes

\* C22: every stored vote whose preferred is left or right has
\* resolved_preferred equal to its preferred.
C22_ResolvedFollowsPreferred ==
    \A r \in votes :
        r.preferred \in {LEFT, RIGHT} => r.resolved_preferred = r.preferred

\* the table holds exactly the rows of the history of device d: every vote
\* cast there was persisted, and nothing else was
Persisted(d) == devices[d].manifest /\ Range(devices[d].history) = votes

\* C23: when every vote of the history of a device is in the votes table,
\* a session that starts from an empty log and merges the server history
\* gets from nextPair what that device gets: the same pair, or null.
C23_ResumeSamePair ==
    \A d \in Devices :
        Persisted(d) =>
            /\ \A remote \in apiHistory(votes, Owner) :
                  renderPair(Owner, Topic, Loaded, mergeHistory(<<>>, remote))
                      = devices[d].pair
            /\ \A e \in Devices :
                  (/\ devices[e].manifest
                   /\ devices[e].fetch = "done"
                   /\ Range(devices[e].history) = votes)
                      => devices[e].pair = devices[d].pair

C23_Witness ==
    /\ Persisted("deviceA")
    /\ Len(devices["deviceA"].history) = 1
    /\ devices["deviceA"].fetch # "done"
    /\ devices["deviceB"].manifest
    /\ devices["deviceB"].fetch = "done"
    /\ devices["deviceB"].history = devices["deviceA"].history
    /\ devices["deviceB"].pair = devices["deviceA"].pair
    /\ devices["deviceB"].pair # NULL

(***************************************************************************)
(* Properties of the eligible list (SpecEligible).                         *)
(***************************************************************************)
RECURSIVE Empty(_)
\* empty in the sense of C24: null, a string of white space only, a list or
\* a record without members or with empty members only
Empty(v) ==
    CASE v.type = "null" -> TRUE
      [] v.type = "string" -> \A i \in 1..Len(v.val) : v.val[i] \in WhiteSpace
      [] v.type \in {"array", "object"} -> \A m \in Range(v.val) : Empty(m)
      [] OTHER -> FALSE

\* C24: a method whose value for the component is empty is not on the
\* eligible list, and a method whose data is loaded with a value that is
\* not empty is on it.
C24_EligibleIffNotEmpty ==
    result # <<>> =>
        /\ Empty(args.value) => args.id \notin Range(result[1])
        /\ (args.loaded /\ ~Empty(args.value)) => args.id \in Range(result[1])

C24_Witness ==
    /\ result # <<>>
    /\ args.loaded
    /\ args.value = [type |-> "object",
                     val |-> <<[type |-> "array", val |-> <<[type |-> "string", val |-> BLANK]>>]>>]
    /\ args.id \notin Range(result[1])
    /\ Len(result[1]) = MaxMethods - 1

\* C27: a request with the token of participant P changes only rows of P:
\* every row it writes has participant_id P, and so had the row of the
\* same id it replaces, whatever id the request carries.
C27_OnlyOwnRowsChange ==
    [][\A r \in votes' \ votes :
          /\ r.participant_id = request[1].token
          /\ \A q \in votes : q.id = r.id => q.participant_id = request[1].token]_vars

\* the method the row's resolved_preferred names
WinnerOf(row) ==
    IF row.resolved_preferred = LEFT THEN row.left_method_id ELSE row.right_method_id

\* C29: in the history of every device, the left method of trial k + 1 is
\* the method that won trial k.
C29_ChampionCarriesOver ==
    \A d \in Devices : \A i, j \in DOMAIN devices[d].history :
        LET r == devices[d].history[i]
            q == devices[d].history[j]
        IN  q.trial_id = r.trial_id + 1 => q.left_method_id = WinnerOf(r)

\* C30: on every device the history never holds more rows than the number
\* of eligible methods less one.
C30_SeenWithinTotal ==
    \A d \in Devices : Len(devices[d].history) <= Cardinality(Loaded) - 1

\* the methods of the first k rows
SeenBy(hist, k) == appearedIn(SubSeq(hist, 1, k))

\* C28: two runs of the same participant, component and methods that differ
\* only in the outcomes have, at every trial, seen the same methods and met
\* the same challenger; the pair offered next has the same challenger too.
C28_EntryOrderFixed ==
    LET a == devices["deviceA"]
        b == devices["deviceB"]
    IN  /\ \A k \in DOMAIN a.history \cap DOMAIN b.history :
               /\ SeenBy(a.history, k) = SeenBy(b.history, k)
               /\ a.history[k].right_method_id = b.history[k].right_method_id
        /\ Len(a.history) = Len(b.history) =>
               \/ a.pair = NULL /\ b.pair = NULL
               \/ a.pair # NULL /\ b.pair # NULL /\ a.pair[2] = b.pair[2]

\* two runs with different champions at a trial where more than one method
\* is still unseen
C28_Witness ==
    LET a == devices["deviceA"]
        b == devices["deviceB"]
    IN  /\ Len(a.history) = 1 /\ Len(b.history) = 1
        /\ a.pair # NULL /\ b.pair # NULL
        /\ a.pair[1] # b.pair[1]
        /\ Cardinality(methods \ SeenBy(a.history, 1)) > 1

(***************************************************************************)
(* Properties of the champion after one row (SpecChampion).                *)
(***************************************************************************)
\* the side an outcome field names, NULL when it names none
SideOf(x) ==
    IF x = NULL THEN NULL
    ELSE IF toLowerCase(x) \in {LEFT, RIGHT, TIE} THEN toLowerCase(x)
    ELSE NULL

\* the outcome of the row: resolved_preferred when it names a side, else
\* preferred when it names a side or a tie, else the left side
OutcomeOf(row) ==
    LET q == SideOf(row.resolved_preferred)
        p == SideOf(row.preferred)
        o == IF q \in {LEFT, RIGHT} THEN q ELSE IF p # NULL THEN p ELSE LEFT
    IN  IF o = TIE
        THEN resolveTiePreferred(P1, Components[1], row.trial_id,
                                 row.left_method_id, row.right_method_id)
        ELSE o

\* C25: the champion after a row is the method of its resolved_preferred
\* when that names a side, otherwise the method of its preferred (a tie
\* resolved with the row's own trial and methods), and the left method only
\* when neither field names an outcome.
C25_FallsBackToPreferred ==
    result # <<>> =>
        result[1][1] = (IF OutcomeOf(args.last) = LEFT THEN args.last.left_method_id
                        ELSE args.last.right_method_id)

(***************************************************************************)
(* Properties of POST /api/start (SpecStart).                              *)
(***************************************************************************)
Succeeded == {i \in 1..MaxStarts : starts[i].status = 200}

\* C26: with an access code of k uses, at most k requests to /api/start
\* succeed, however the requests interleave, and uses_remaining is never
\* negative.
C26_StartsWithinUses ==
    args.uses_remaining # NULL =>
        /\ Cardinality(Succeeded) <= args.uses_remaining[1]
        /\ access_codes[1] >= 0

====
